---- MODULE Spec2Model ----
(***************************************************************************)
(* The resilient messaging client of diyapi_tools                          *)
(* (greenlet_resilient_client.py, class GreelletResilientClient).          *)
(*                                                                         *)
(* Every method of the class is one action, translated statement by        *)
(* statement, Python exceptions included: a call either returns or raises, *)
(* and the assignments made before the raise stay made.  The variable      *)
(* `last` records how the most recent call ended.                          *)
(*                                                                         *)
(* The class keeps its queue in a collections.deque and its lock in the    *)
(* attribute _send_queue_lock, but every method takes the lock as          *)
(* self._send_queue.lock and enqueues with self._send_queue.put.  A deque  *)
(* has neither attribute, so each of those statements raises               *)
(* AttributeError (deque_has_lock, deque_has_put).  The statements behind  *)
(* them are translated all the same.                                       *)
(*                                                                         *)
(* __init__ itself raises (it calls _send_handshake), so no sequence of    *)
(* calls yields a client object.  The method actions are therefore         *)
(* checked as contracts: Init offers, besides the state before             *)
(* construction, every client object whose fields hold values that the     *)
(* class's own assignments write together (ClientObjects).                 *)
(***************************************************************************)
EXTENDS Integers, Sequences, FiniteSets, TLC

\* ------------------------------------------------------------------ bounds
MaxQueue == 2      \* longest Send Queue offered by Init / built by the model
MaxInbox == 1      \* unread acks the socket holds
MaxUuid  == 3      \* uuid.uuid1() calls in one behaviour
MaxTime  == 61     \* the clock stops advancing once it has reached this
TickStep == 11     \* seconds the clock advances in one step

\* --------------------------------------------------------- module constants
_ack_timeout == 10
_handshake_retry_interval == 60
polling_interval == 3

_status_handshaking == 1
_status_connected == 2
_status_disconnected == 3

\* Python's None in a time field
NoTime == -1

\* request-ids callers supply themselves; uuid.uuid1() yields 1, 2, 3, ...
AppRids == {101, 102}
\* the value of a key that is absent from a control map
Absent == 0

ClientTags == {"tag-A"}
ClientAddresses == {"addr-A"}

\* collections.deque has no attribute `lock` and no attribute `put`
deque_has_lock == FALSE
deque_has_put == FALSE

\* ------------------------------------------------------------ Python values
\* Every value a message variable can hold is a record of one shape, so that
\* TLC can compare them: shape tells None, a dict (a bare control map) and a
\* _message_format namedtuple (control, body) apart.
None == [shape |-> "None", mtype |-> "", rid |-> Absent, tag |-> "", addr |-> "", body |-> ""]

\* _message_format(control=..., body=...)
_message_format(mtype, rid, tag, addr, body) ==
    [shape |-> "Message", mtype |-> mtype, rid |-> rid, tag |-> tag, addr |-> addr, body |-> body]

\* a bare dict used as a control map
Dict(mtype, rid, tag, addr) ==
    [shape |-> "dict", mtype |-> mtype, rid |-> rid, tag |-> tag, addr |-> addr, body |-> ""]

\* uuid.uuid1().hex: the n-th identifier generated
Uuid(n) == n

HandshakeType == "resilient-server-handshake"

\* the handshake control map that _send_handshake builds
HandshakeDict(rid, tag, addr) == Dict(HandshakeType, rid, tag, addr)

\* an application envelope as queue_message_for_send builds it
AppMessage(rid, body) == _message_format("put", rid, "", "", body)

Bodies == {"None", "abc"}

\* --------------------------------------------------------------- the state
VARIABLES
    constructed,                 \* a client object exists (__init__ returned)
    status,                      \* self._status
    status_time,                 \* self._status_time
    pending_message,             \* self._pending_message
    pending_message_start_time,  \* self._pending_message_start_time
    send_queue,                  \* self._send_queue
    client_tag,                  \* self._client_tag
    client_address,              \* self._client_address
    deliverator,                 \* request-ids registered with the deliverator
    wire,                        \* control maps sent on the socket, in order
    inbox,                       \* acks the peer has sent, not yet received
    now,                         \* time.time()
    halt_event,                  \* halt_event.is_set()
    uuid_count,                  \* uuid.uuid1() calls so far
    last                         \* how the most recent call ended

\* the multiplexed client (greenlet_xreq_client.py, class GreenletXREQClient)
VARIABLES
    xreq_send_queue,        \* self._send_queue
    xreq_delivery_queues,   \* self._delivery_queues: request-id -> channel
    xreq_channels,          \* what each channel (a gevent Queue) has been given
    xreq_issued,            \* the request-id each channel was created for
    xreq_wire,              \* the multipart messages sent on the socket
    xreq_inbox,             \* multipart messages from the peer, not yet received
    xreq_uuid_count,        \* uuid.uuid1() calls so far
    xreq_last               \* how the most recent call ended

xvars == <<xreq_send_queue, xreq_delivery_queues, xreq_channels, xreq_issued,
           xreq_wire, xreq_inbox, xreq_uuid_count, xreq_last>>

rvars == <<constructed, status, status_time, pending_message,
           pending_message_start_time, send_queue, client_tag, client_address,
           deliverator, wire, inbox, now, halt_event, uuid_count, last>>

\* one call of check_access_control (collection_access_control.py)
VARIABLES
    access_type,                 \* the type of access requested
    request,                     \* the request: url path, remote_addr, Referer
    baseline_access_control,     \* the collection's access_control dict
    check_result                 \* how the call ended

avars == <<access_type, request, baseline_access_control, check_result>>

\* the space usage getter (space_usage_getter.py, class SpaceUsageGetter)
VARIABLES
    agreement_level,             \* self.agreement_level
    _pending,                    \* self._pending: the tasks still running
    _done,                       \* self._done
    sug_calls,                   \* get_space_usage calls that spawned so far
    sug_joining,                 \* the call that waits in _join, 0 for none
    sug_timeout,                 \* whether that call was given a timeout
    sug_last                     \* how the most recent call ended

svars == <<agreement_level, _pending, _done, sug_calls, sug_joining,
           sug_timeout, sug_last>>

vars == <<rvars, xvars, avars, svars>>

\* the variables of the other components, which a component's steps leave alone
not_rvars == <<xvars, avars, svars>>
not_xvars == <<rvars, avars, svars>>
not_avars == <<rvars, xvars, svars>>
not_svars == <<rvars, xvars, avars>>

fields == <<status, status_time, pending_message, pending_message_start_time,
            send_queue>>

\* how a call ended: op the method, outcome "returned" or the exception
\* raised, ret the returned schedule (run) as a sequence of times
Outcome(op, outcome, ret) == [op |-> op, outcome |-> outcome, ret |-> ret]
NoCall == Outcome("none", "none", <<>>)


\* ------------------------------------------------------------- client objects
\* Send Queues of at most MaxQueue application envelopes with distinct
\* request-ids, none of them stamped yet (client-tag is set at send time)
QueueInits ==
    LET idseqs == UNION {[1..n -> AppRids] : n \in 0..MaxQueue}
    IN {[i \in DOMAIN f |-> AppMessage(f[i], "abc")] :
            f \in {g \in idseqs : \A i, j \in DOMAIN g : g[i] = g[j] => i = j}}

\* The (status, Pending Slot) pairs that the class's assignments write together:
\*   disconnected with None        (lines 51, 59; 198-203; 215-218)
\*   handshaking with the handshake dict            (lines 108-112)
\*   connected with None                            (lines 139-143)
\*   connected with the envelope just transmitted   (lines 88-90)
\* each with a Send Queue that does not hold the pending envelope.
ClientObjects ==
    LET hs == HandshakeDict(Uuid(1), "tag-A", "addr-A")
        pairs == {<<_status_disconnected, None>>,
                  <<_status_handshaking, hs>>,
                  <<_status_connected, None>>}
                 \cup {<<_status_connected,
                         [AppMessage(r, "abc") EXCEPT !.tag = "tag-A"]>> : r \in AppRids}
    IN UNION {{[status |-> p[1], pending |-> p[2], queue |-> q] :
                  q \in {x \in QueueInits : \A i \in DOMAIN x : x[i].rid # p[2].rid}} :
              p \in pairs}

\* the fields as lines 50-60 of __init__ set them
FreshObject == [status |-> _status_disconnected, pending |-> None, queue |-> <<>>]

\* ------------------------------------------- the multiplexed client: values
MaxXCalls == 2     \* queue_message_for_send calls on the multiplexed client
MaxXInbox == 1     \* unread multipart messages its socket holds

\* the request-id its callers supply themselves (the others are uuids)
XRids == {101}

\* A body as a caller passes it, or as _receive_message returns it: None, one
\* bare segment, or a list of segments.  segs lists the segments in each case.
XNoBody == [kind |-> "None", segs |-> <<>>]
XScalar(s) == [kind |-> "scalar", segs |-> <<s>>]
XList(q) == [kind |-> "list", segs |-> q]
XBodies == {XNoBody, XScalar("s1"), XList(<<>>), XList(<<"s1">>),
            XList(<<"s1", "s2">>)}

\* a control map: its request-id (Absent when it has none) and the rest of it
XControl(rid, rest) == [rid |-> rid, rest |-> rest]

\* _message_format(control=..., body=...)
XMessage(control, body) == [control |-> control, body |-> body]

\* One frame of a multipart message: the control map as JSON, or a raw
\* segment; more is zmq.SNDMORE / rcvmore().
JsonFrame(control, more) == [kind |-> "json", control |-> control, seg |-> "", more |-> more]
RawFrame(seg, more) ==
    [kind |-> "raw", control |-> XControl(Absent, ""), seg |-> seg, more |-> more]

\* GreenletXREQClient._send_message, line 99: message.body[-1] of an empty
\* list raises IndexError, after the control frame went out with SNDMORE
xreq_send_raises(message) ==
    message.body.kind = "list" /\ message.body.segs = <<>>

\* GreenletXREQClient._send_message: the frames it sends for one message
xreq_send_message(message) ==
    IF message.body.kind # "None"
    THEN LET body == message.body.segs  \* a scalar is wrapped in a list
         IN <<JsonFrame(message.control, TRUE)>>
            \o [i \in 1..Len(body) |-> RawFrame(body[i], i < Len(body))]
    ELSE <<JsonFrame(message.control, FALSE)>>

\* a _receive_message that keeps a single trailing frame as a one-element list
xreq_receive_no_unwrap(frames) ==
    LET body == [i \in 1..(Len(frames) - 1) |-> frames[i + 1].seg]
    IN XMessage(frames[1].control,
                IF Len(body) = 0 THEN XNoBody ELSE XList(body))

\* GreenletXREQClient._receive_message on the frames of one multipart message
xreq_receive_message(frames) ==
    LET control == frames[1].control
        body == [i \in 1..(Len(frames) - 1) |-> frames[i + 1].seg]
    IN XMessage(control,
                IF Len(body) = 0 THEN XNoBody
                ELSE IF Len(body) = 1 THEN XScalar(body[1])
                ELSE XList(body))

\* how a call on the multiplexed client ended: channel is the channel returned
\* (queue_message_for_send) or fulfilled (callback), 0 for none; seen is what
\* the callback did with its input: "blocked" (nothing to read), "malformed",
\* "miss", "hit", or "none" (not readable)
\* rid is the request-id registered or read (Absent for none).
XOutcome(op, outcome, channel, rid, readable, writable, seen) ==
    [op |-> op, outcome |-> outcome, channel |-> channel, rid |-> rid,
     readable |-> readable, writable |-> writable, seen |-> seen]

\* GreenletXREQClient.__init__
XreqInit ==
    /\ xreq_send_queue = <<>>
    /\ xreq_delivery_queues = [k \in {} |-> 0]
    /\ xreq_channels = <<>>
    /\ xreq_issued = <<>>
    /\ xreq_wire = <<>>
    /\ xreq_inbox = <<>>
    /\ xreq_uuid_count = 0
    /\ xreq_last = XOutcome("none", "none", 0, Absent, FALSE, FALSE, "none")

\* ------------------------------------------ collection access control: values
read_access == 1
write_access == 2
list_access == 3
delete_access == 4

access_allowed == 1
access_requires_password_authentication == 2
access_forbidden == 3

\* a string as the sequence of its characters; "A" and "E" are the upper-case
\* characters in use
Lower(c) == IF c = "A" THEN "a" ELSE IF c = "E" THEN "e" ELSE c
lower(str) == [i \in DOMAIN str |-> Lower(str[i])]
startswith(str, prefix) ==
    /\ Len(prefix) <= Len(str)
    /\ SubSeq(str, 1, Len(prefix)) = prefix

\* _normalize_path: lower case, no leading slash
RECURSIVE StripSlashes(_)
StripSlashes(str) ==
    IF str # <<>> /\ Head(str) = "/" THEN StripSlashes(Tail(str)) ELSE str
_normalize_path(path) == StripSlashes(lower(path))

\* an IPv4 address as a 32-bit number, a network as its address and prefix
\* length (ipaddr.IPv4Address, ipaddr.IPv4Network)
IPv4Address(a, b, c, d) == ((a * 256 + b) * 256 + c) * 256 + d
IPv4Network(address, prefixlen) == [address |-> address, prefixlen |-> prefixlen]
RECURSIVE Pow2(_)
Pow2(n) == IF n = 0 THEN 1 ELSE 2 * Pow2(n - 1)
\* remote_addr in network
InNetwork(remote_addr, network) ==
    remote_addr \div Pow2(32 - network.prefixlen)
        = network.address \div Pow2(32 - network.prefixlen)

\* the value found under a key of the dict: the key is absent, or the value
\* is None (null), or it is a flag, or a list
NoKey == [kind |-> "absent", flag |-> FALSE, items |-> <<>>]
Null == [kind |-> "None", flag |-> FALSE, items |-> <<>>]
Flag(b) == [kind |-> "bool", flag |-> b, items |-> <<>>]
List(q) == [kind |-> "list", flag |-> FALSE, items |-> q]

\* an access_control dict, or the entry of a location without its
\* discriminator
AccessControl(r, w, l, d, ipv4, referrer, locs) ==
    [allow_unauth_read |-> r, allow_unauth_write |-> w,
     allow_unauth_list |-> l, allow_unauth_delete |-> d,
     ipv4_whitelist |-> ipv4, unauth_referrer_whitelist |-> referrer,
     locations |-> locs]
EmptyDict == AccessControl(NoKey, NoKey, NoKey, NoKey, NoKey, NoKey, NoKey)

\* a location: discriminator "prefix", "regexp" or "none" (unparsable), its
\* value, and the rest of the object
Location(discriminator, value, entry) ==
    [discriminator |-> discriminator, value |-> value, entry |-> entry]

\* the request: the path of request.url, request.remote_addr and the Referer
\* header as urlparse splits it (has is FALSE when there is no such header)
Request(path, remote_addr, referer) ==
    [path |-> path, remote_addr |-> remote_addr, referer |-> referer]
NoReferer == [has |-> FALSE, netloc |-> <<>>, path |-> <<>>]
Referer(netloc, path) == [has |-> TRUE, netloc |-> netloc, path |-> path]

\* how a call ended: outcome "returned" or the exception, value the result
AcOutcome(outcome, value) == [outcome |-> outcome, value |-> value]
NoResult == AcOutcome("none", 0)

\* ------------------------------------- collection access control: functions
\* lines 147-164: does the location match the normalized path
LocationMatches(location, path) ==
    IF location.discriminator = "prefix"
    THEN startswith(path, _normalize_path(location.value))
    ELSE IF location.discriminator = "regexp"
    THEN \* a literal pattern, re.IGNORECASE, matched at the start of path
         startswith(lower(path), lower(location.value))
    ELSE \* unparsable location entry
         FALSE

\* access_control.update(location_entry): the keys of the entry replace those
\* of the copy
DictUpdate(access_control, entry) ==
    [k \in DOMAIN access_control |->
        IF entry[k].kind # "absent" THEN entry[k] ELSE access_control[k]]

\* _apply_location_modifications(baseline_access_control, url), for a
\* locations value that is a list
_apply_location_modifications(baseline, url_path) ==
    LET path == _normalize_path(url_path)
        locs == baseline.locations.items
        matching == {i \in DOMAIN locs : LocationMatches(locs[i], path)}
    IN IF matching = {} THEN baseline
       ELSE LET location_index == CHOOSE i \in matching : \A j \in matching : i <= j
            IN DictUpdate(baseline, locs[location_index].entry)

\* a _check_ipv4_whitelist that takes every entry for its /8 network
_check_ipv4_whitelist_slash8(raw_whitelist, raw_remote_addr) ==
    \E i \in DOMAIN raw_whitelist :
       InNetwork(raw_remote_addr, [raw_whitelist[i] EXCEPT !.prefixlen = 8])

\* _check_ipv4_whitelist(raw_whitelist, raw_remote_addr)
_check_ipv4_whitelist(raw_whitelist, raw_remote_addr) ==
    \E i \in DOMAIN raw_whitelist : InNetwork(raw_remote_addr, raw_whitelist[i])

\* _check_unauth_referrer_whitelist(raw_whitelist, headers), for a whitelist
\* that is a list
_check_unauth_referrer_whitelist(raw_whitelist, referer) ==
    IF ~referer.has THEN FALSE
    ELSE LET whitelist == [i \in DOMAIN raw_whitelist |->
                              _normalize_path(raw_whitelist[i])]
             path == _normalize_path(referer.path)
             test_path == lower(referer.netloc) \o <<"/">> \o path
         IN \E i \in DOMAIN whitelist : startswith(test_path, whitelist[i])

\* line 346 tests len(unauth_referrer_whitelist) > 0, the length of the key's
\* name, where line 333 tests the length of the list
referrer_whitelist_len_positive(access_control) == TRUE

\* access_control.get(flag, False)
GetFlag(value) == value.kind = "bool" /\ value.flag

\* lines 361-379: the allow_unauth_* flag of the access type
AllowedUnauth(type, access_control) ==
    \/ type = read_access /\ GetFlag(access_control.allow_unauth_read)
    \/ type = write_access /\ GetFlag(access_control.allow_unauth_write)
    \/ type = list_access /\ GetFlag(access_control.allow_unauth_list)
    \/ type = delete_access /\ GetFlag(access_control.allow_unauth_delete)

\* lines 326-330: the access control in effect for the request (the
\* locations value being absent or a list)
EffectiveAccessControl(req, baseline) ==
    IF baseline.locations.kind = "list"
    THEN _apply_location_modifications(baseline, req.path)
    ELSE baseline

\* check_access_control(access_type, request, baseline_access_control)
check_access_control(type, req, baseline) ==
    IF baseline = EmptyDict
    THEN AcOutcome("returned", access_requires_password_authentication)
    ELSE IF baseline.locations.kind = "None"
    THEN \* line 147: enumerate(None)
         AcOutcome("TypeError", 0)
    ELSE
    LET access_control == EffectiveAccessControl(req, baseline)
        ipv4 == access_control.ipv4_whitelist
        referrer == access_control.unauth_referrer_whitelist
    IN
    IF ipv4.kind = "None"
    THEN \* line 333: len(None)
         AcOutcome("TypeError", 0)
    ELSE IF /\ ipv4.kind # "absent"
            /\ Len(ipv4.items) > 0
            /\ ~_check_ipv4_whitelist(ipv4.items, req.remote_addr)
    THEN AcOutcome("returned", access_forbidden)
    ELSE IF /\ referrer.kind # "absent"
            /\ referrer_whitelist_len_positive(access_control)
            /\ referrer.kind = "None"
            /\ req.referer.has
    THEN \* line 214: iterating None
         AcOutcome("TypeError", 0)
    ELSE IF /\ referrer.kind # "absent"
            /\ referrer_whitelist_len_positive(access_control)
            /\ ~_check_unauth_referrer_whitelist(referrer.items, req.referer)
    THEN AcOutcome("returned", access_forbidden)
    ELSE IF AllowedUnauth(type, access_control)
    THEN AcOutcome("returned", access_allowed)
    ELSE AcOutcome("returned", access_requires_password_authentication)

\* ---------------------------------------- collection access control: inputs
AccessTypes == {read_access, write_access, list_access, delete_access}

RemoteAddrs ==
    {IPv4Address(10, 1, 2, 3), IPv4Address(10, 9, 9, 9), IPv4Address(127, 0, 0, 1)}

\* "10.0.0.0/8"; "10.1.2.3", "127.0.0.1"
Ipv4Whitelists ==
    {NoKey, Null, List(<<>>),
     List(<<IPv4Network(IPv4Address(10, 0, 0, 0), 8)>>),
     List(<<IPv4Network(IPv4Address(10, 1, 2, 3), 32),
            IPv4Network(IPv4Address(127, 0, 0, 1), 32)>>)}

\* "e.io/App"
ReferrerWhitelists ==
    {NoKey, Null, List(<<>>), List(<< <<"e", ".", "i", "o", "/", "A", "p", "p">> >>)}

\* no Referer; "http://E.io/app/x"; "http://o.io/"
Referers ==
    {NoReferer,
     Referer(<<"E", ".", "i", "o">>, <<"/", "a", "p", "p", "/", "x">>),
     Referer(<<"o", ".", "i", "o">>, <<"/">>)}

\* "/Ab/k"; "/d"
UrlPaths == {<<"/", "A", "b", "/", "k">>, <<"/", "d">>}

Requests ==
    {Request(p, a, r) : p \in UrlPaths, a \in RemoteAddrs, r \in Referers}

\* {"prefix": "/ab", "ipv4_whitelist": ["127.0.0.1"]}
LocationPrefix ==
    Location("prefix", <<"/", "a", "b">>,
             [EmptyDict EXCEPT !.ipv4_whitelist =
                 List(<<IPv4Network(IPv4Address(127, 0, 0, 1), 32)>>)])
\* {"regexp": "Ab", "allow_unauth_read": true, "ipv4_whitelist": []}
LocationRegexp ==
    Location("regexp", <<"A", "b">>,
             [EmptyDict EXCEPT !.allow_unauth_read = Flag(TRUE),
                               !.ipv4_whitelist = List(<<>>)])
\* {"allow_unauth_delete": true}
LocationUnparsable ==
    Location("none", <<>>, [EmptyDict EXCEPT !.allow_unauth_delete = Flag(TRUE)])

LocationsValues ==
    {NoKey, Null, List(<<>>), List(<<LocationPrefix>>),
     List(<<LocationUnparsable, LocationRegexp, LocationPrefix>>)}

Baselines ==
    {AccessControl(r, w, l, d, ipv4, referrer, locs) :
        r \in {NoKey, Flag(TRUE), Flag(FALSE)},
        w \in {NoKey, Flag(TRUE)}, l \in {NoKey, Flag(TRUE)},
        d \in {NoKey, Flag(TRUE)},
        ipv4 \in Ipv4Whitelists, referrer \in ReferrerWhitelists,
        locs \in LocationsValues}

\* no call of check_access_control is in play
NoAccessCheck ==
    /\ access_type = read_access
    /\ request = Request(<<>>, IPv4Address(127, 0, 0, 1), NoReferer)
    /\ baseline_access_control = EmptyDict
    /\ check_result = NoResult

\* ------------------------------------------------------- space usage getter
\* (space_usage_getter.py, class SpaceUsageGetter)
NumReaders == 2      \* data readers the getter is given
MaxSugCalls == 3     \* get_space_usage calls that spawn tasks

data_readers == 1..NumReaders

\* the task a call spawns for a data reader
Task(call, data_reader) == [call |-> call, data_reader |-> data_reader]

\* how a call ended: outcome "returned" or the exception raised, call the
\* number of the call among those that spawned (0 for one that did not)
SugOutcome(outcome, call) == [outcome |-> outcome, call |-> call]
SugNoCall == SugOutcome("none", 0)

\* SpaceUsageGetter.__init__, no call made yet
SugFresh ==
    /\ _pending = {}
    /\ _done = <<>>
    /\ sug_calls = 0
    /\ sug_joining = 0
    /\ sug_timeout = FALSE
    /\ sug_last = SugNoCall

\* no space usage getter is in play
NoSpaceUsageGetter == agreement_level = 1 /\ SugFresh


Init ==
    /\ constructed \in BOOLEAN
    /\ \E o \in (IF constructed THEN ClientObjects ELSE {FreshObject}) :
          /\ status = o.status
          /\ pending_message = o.pending
          /\ send_queue = o.queue
    /\ status_time = 0
    /\ pending_message_start_time = IF pending_message = None THEN NoTime ELSE 0
    /\ client_tag = "tag-A"
    /\ client_address = "addr-A"
    \* every envelope the client holds was registered when it was accepted
    /\ deliverator = {send_queue[i].rid : i \in DOMAIN send_queue}
                     \cup (IF pending_message.shape = "Message"
                           THEN {pending_message.rid} ELSE {})
    \* a non-empty Pending Slot holds an envelope that went out on the socket
    /\ wire = IF pending_message = None THEN <<>>
              ELSE <<[pending_message EXCEPT !.shape = "Message", !.body = "None"]>>
    /\ inbox = <<>>
    /\ now = 0
    /\ halt_event = FALSE
    /\ uuid_count = IF pending_message.mtype = HandshakeType THEN 1 ELSE 0
    /\ last = NoCall
    /\ XreqInit
    /\ NoAccessCheck
    /\ NoSpaceUsageGetter

\* ------------------------------------------------------------------ helpers
\* _send_message: stamps client-tag into the control map (in place) and sends
\* the control frame, followed by the body frames when there is a body.
\* The value is the envelope as stamped; the caller appends it to the wire.
_send_message(message, tag) == [message EXCEPT !.tag = tag]

\* deliverator.add_request(request_id): refuses a request-id that is
\* already registered
add_request_fails(request_id) == request_id \in deliverator


\* uuid.uuid1() in _send_handshake (line 102): one more identifier generated.
\* The model counts them up to MaxUuid; an identifier generated beyond that is
\* never used, because line 106 raises before the control map goes anywhere.
NextUuidCount == IF uuid_count < MaxUuid THEN uuid_count + 1 ELSE uuid_count

\* _send_handshake behind the lock (lines 107-112): the handshake goes out,
\* the Pending Slot is set to the control map (the dict, not the namedtuple),
\* and the status becomes handshaking
HandshakeSent(rid, tag, addr) ==
    /\ wire' = Append(wire, _send_message(
                   _message_format(HandshakeType, rid, tag, addr, "None"), tag))
    /\ pending_message' = HandshakeDict(rid, tag, addr)
    /\ pending_message_start_time' = now
    /\ status' = _status_handshaking
    /\ status_time' = now

\* ------------------------------------------------------------------ __init__
Construct(tag, addr) ==
    /\ ~constructed
    /\ client_tag' = tag
    /\ client_address' = addr
    /\ send_queue' = <<>>
    \* _send_handshake
    /\ uuid_count' = NextUuidCount
    /\ IF deque_has_lock
       THEN /\ uuid_count < MaxUuid
            /\ HandshakeSent(Uuid(uuid_count + 1), tag, addr)
            /\ constructed' = TRUE
            /\ last' = Outcome("__init__", "returned", <<>>)
       ELSE \* line 106 raises; the fields keep what lines 50-60 gave them
            /\ wire' = <<>>
            /\ pending_message' = None
            /\ pending_message_start_time' = NoTime
            /\ status' = _status_disconnected
            /\ status_time' = now
            /\ constructed' = FALSE
            /\ last' = Outcome("__init__", "AttributeError", <<>>)
    /\ UNCHANGED <<deliverator, inbox, now, halt_event>>
    /\ UNCHANGED not_rvars

\* --------------------------------------------------- queue_message_for_send
\* has_rid: the caller's control map carries a request-id (r); data: the body
queue_message_for_send(has_rid, r, data) ==
    /\ constructed
    /\ has_rid \/ uuid_count < MaxUuid
    /\ uuid_count' = IF has_rid THEN uuid_count ELSE uuid_count + 1
    /\ LET request_id == IF has_rid THEN r ELSE Uuid(uuid_count + 1)
           message == AppMessage(request_id, data)
           op == "queue_message_for_send"
       IN IF add_request_fails(request_id)
          THEN /\ last' = Outcome(op, "DuplicateRequestId", <<>>)
               /\ UNCHANGED <<fields, deliverator, wire>>
          ELSE /\ deliverator' = deliverator \cup {request_id}
               /\ IF ~deque_has_lock
                  THEN \* line 85 raises
                       /\ last' = Outcome(op, "AttributeError", <<>>)
                       /\ UNCHANGED <<fields, wire>>
                  ELSE IF status = _status_connected /\ pending_message = None
                  THEN /\ wire' = Append(wire, _send_message(message, client_tag))
                       /\ pending_message' = _send_message(message, client_tag)
                       /\ pending_message_start_time' = now
                       /\ last' = Outcome(op, "returned", <<>>)
                       /\ UNCHANGED <<status, status_time, send_queue>>
                  ELSE IF ~deque_has_put
                  THEN \* line 92 raises
                       /\ last' = Outcome(op, "AttributeError", <<>>)
                       /\ UNCHANGED <<fields, wire>>
                  ELSE /\ send_queue' = Append(send_queue, message)
                       /\ last' = Outcome(op, "returned", <<>>)
                       /\ UNCHANGED <<status, status_time, pending_message,
                                      pending_message_start_time, wire>>
    /\ UNCHANGED <<constructed, client_tag, client_address, inbox, now, halt_event>>
    /\ UNCHANGED not_rvars

\* -------------------------------------------------------- _pollster_callback
_pollster_callback ==
    /\ constructed
    /\ LET op == "_pollster_callback" IN
       IF inbox = <<>>
       THEN \* _receive_message: the socket would have blocked
            /\ last' = Outcome(op, "returned", <<>>)
            /\ UNCHANGED <<fields, wire, inbox>>
       ELSE
       LET message == Head(inbox) IN
       /\ inbox' = Tail(inbox)
       /\ IF ~deque_has_lock
          THEN \* line 122 raises
               /\ last' = Outcome(op, "AttributeError", <<>>)
               /\ UNCHANGED <<fields, wire>>
          ELSE IF pending_message = None
          THEN \* unexpected message
               /\ last' = Outcome(op, "returned", <<>>)
               /\ UNCHANGED <<fields, wire>>
          ELSE IF pending_message.shape # "Message"
          THEN \* line 128: a dict has no attribute `control`
               /\ last' = Outcome(op, "AttributeError", <<>>)
               /\ UNCHANGED <<fields, wire>>
          ELSE IF message.rid = Absent
          THEN \* line 129: message["request-id"]
               /\ last' = Outcome(op, "KeyError", <<>>)
               /\ UNCHANGED <<fields, wire>>
          ELSE IF message.rid # pending_message.rid
          THEN \* unknown ack
               /\ last' = Outcome(op, "returned", <<>>)
               /\ UNCHANGED <<fields, wire>>
          ELSE IF pending_message.mtype = HandshakeType
                  /\ status # _status_handshaking
          THEN \* line 138
               /\ last' = Outcome(op, "AssertionError", <<>>)
               /\ UNCHANGED <<fields, wire>>
          ELSE
          /\ status' = IF pending_message.mtype = HandshakeType
                       THEN _status_connected ELSE status
          /\ status_time' = IF pending_message.mtype = HandshakeType
                            THEN now ELSE status_time
          /\ IF send_queue = <<>>
             THEN \* popleft raises IndexError: nothing to send
                  /\ pending_message' = None
                  /\ pending_message_start_time' = NoTime
                  /\ last' = Outcome(op, "returned", <<>>)
                  /\ UNCHANGED <<send_queue, wire>>
             ELSE /\ send_queue' = Tail(send_queue)
                  /\ IF Head(send_queue).shape # "Message"
                     THEN \* _send_message, line 157: no attribute `control`
                          /\ pending_message' = None
                          /\ pending_message_start_time' = NoTime
                          /\ last' = Outcome(op, "AttributeError", <<>>)
                          /\ UNCHANGED wire
                     ELSE /\ wire' = Append(wire, _send_message(Head(send_queue), client_tag))
                          \* line 151 stores the ack just received
                          /\ pending_message' = message
                          /\ pending_message_start_time' = now
                          /\ last' = Outcome(op, "returned", <<>>)
    /\ UNCHANGED <<constructed, client_tag, client_address, deliverator, now,
                   halt_event, uuid_count>>
    /\ UNCHANGED not_rvars

\* ------------------------------------------------------------------------ run
\* a housekeeping task that never looks at the halt event
halt_ignored == FALSE

\* halt_event.is_set() (line 184)
halt_is_set == halt_event

\* the housekeeping task; its value is the schedule it returns
run ==
    /\ constructed
    /\ LET op == "run"
           again == <<now + polling_interval>>
       IN
       IF halt_is_set
       THEN /\ last' = Outcome(op, "returned", <<>>)
            /\ UNCHANGED <<fields, wire, uuid_count>>
       ELSE IF status = _status_connected
       THEN IF ~deque_has_lock
            THEN \* line 189 raises
                 /\ last' = Outcome(op, "AttributeError", <<>>)
                 /\ UNCHANGED <<fields, wire, uuid_count>>
            ELSE IF pending_message # None
                    /\ now - pending_message_start_time > _ack_timeout
            THEN /\ status' = _status_disconnected
                 /\ status_time' = now
                 /\ send_queue' = <<pending_message>> \o send_queue
                 /\ pending_message' = None
                 /\ pending_message_start_time' = NoTime
                 /\ last' = Outcome(op, "returned", again)
                 /\ UNCHANGED <<wire, uuid_count>>
            ELSE /\ last' = Outcome(op, "returned", again)
                 /\ UNCHANGED <<fields, wire, uuid_count>>
       ELSE IF status = _status_disconnected
       THEN IF now - status_time > _handshake_retry_interval
            THEN \* _send_handshake
                 /\ uuid_count' = NextUuidCount
                 /\ IF ~deque_has_lock
                    THEN \* line 106 raises
                         /\ last' = Outcome(op, "AttributeError", <<>>)
                         /\ UNCHANGED <<fields, wire>>
                    ELSE /\ uuid_count < MaxUuid
                         /\ HandshakeSent(Uuid(uuid_count + 1), client_tag,
                                          client_address)
                         /\ last' = Outcome(op, "returned", again)
                         /\ UNCHANGED send_queue
            ELSE /\ last' = Outcome(op, "returned", again)
                 /\ UNCHANGED <<fields, wire, uuid_count>>
       ELSE IF status = _status_handshaking
       THEN IF ~deque_has_lock
            THEN \* line 210 raises
                 /\ last' = Outcome(op, "AttributeError", <<>>)
                 /\ UNCHANGED <<fields, wire, uuid_count>>
            ELSE IF pending_message = None
            THEN \* line 211
                 /\ last' = Outcome(op, "AssertionError", <<>>)
                 /\ UNCHANGED <<fields, wire, uuid_count>>
            ELSE IF now - pending_message_start_time > _ack_timeout
            THEN /\ status' = _status_disconnected
                 /\ status_time' = now
                 /\ pending_message' = None
                 /\ pending_message_start_time' = NoTime
                 /\ last' = Outcome(op, "returned", again)
                 /\ UNCHANGED <<send_queue, wire, uuid_count>>
            ELSE /\ last' = Outcome(op, "returned", again)
                 /\ UNCHANGED <<fields, wire, uuid_count>>
       ELSE \* unknown status: logged
            /\ last' = Outcome(op, "returned", again)
            /\ UNCHANGED <<fields, wire, uuid_count>>
    /\ UNCHANGED <<constructed, client_tag, client_address, deliverator, inbox,
                   now, halt_event>>
    /\ UNCHANGED not_rvars

\* ------------------------------------------------------------- environment
\* time passes
Tick ==
    /\ now < MaxTime
    /\ now' = now + TickStep
    /\ UNCHANGED <<constructed, fields, client_tag, client_address, deliverator,
                   wire, inbox, halt_event, uuid_count, last>>
    /\ UNCHANGED not_rvars

\* request-ids an incoming message can carry: none, a caller's, a generated one
AckRids == {Absent} \cup AppRids \cup {Uuid(n) : n \in 1..MaxUuid}

\* the peer sends a message, which waits in the socket until it is received
PeerSend(rid) ==
    /\ constructed
    /\ Len(inbox) < MaxInbox
    /\ inbox' = Append(inbox, Dict("ack", rid, "", ""))
    /\ UNCHANGED <<constructed, fields, client_tag, client_address, deliverator,
                   wire, now, halt_event, uuid_count, last>>
    /\ UNCHANGED not_rvars

\* the halt event is set
SetHalt ==
    /\ constructed
    /\ ~halt_event
    /\ halt_event' = TRUE
    /\ UNCHANGED <<constructed, fields, client_tag, client_address, deliverator,
                   wire, inbox, now, uuid_count, last>>
    /\ UNCHANGED not_rvars

Next ==
    \/ \E tag \in ClientTags, addr \in ClientAddresses : Construct(tag, addr)
    \/ \E has_rid \in BOOLEAN, r \in AppRids, data \in Bodies :
          queue_message_for_send(has_rid, r, data)
    \/ _pollster_callback
    \/ run
    \/ Tick
    \/ \E rid \in AckRids : PeerSend(rid)
    \/ SetHalt

Spec == Init /\ [][Next]_vars

\* The reactor calls the callback whenever the socket is readable, the time
\* queue calls the housekeeping task at the time it asked for, the clock runs.
\* The peer acknowledges the envelope sent last (whenever the socket has room
\* for the ack again and again, the ack does arrive).
PeerAcksLast == wire # <<>> /\ PeerSend(wire[Len(wire)].rid)

FairSpec ==
    /\ Spec
    /\ WF_vars(_pollster_callback)
    /\ WF_vars(run)
    /\ WF_vars(Tick)
    /\ SF_vars(PeerAcksLast)


\* ------------------------------------------ the multiplexed client: actions
\* no resilient client is in play
NoResilientClient ==
    /\ constructed = FALSE
    /\ status = FreshObject.status
    /\ pending_message = FreshObject.pending
    /\ send_queue = FreshObject.queue
    /\ status_time = 0
    /\ pending_message_start_time = NoTime
    /\ client_tag = "tag-A"
    /\ client_address = "addr-A"
    /\ deliverator = {}
    /\ wire = <<>>
    /\ inbox = <<>>
    /\ now = 0
    /\ halt_event = FALSE
    /\ uuid_count = 0
    /\ last = NoCall

XInit == NoResilientClient /\ XreqInit /\ NoAccessCheck /\ NoSpaceUsageGetter

\* self._delivery_queues[request_id] = Queue(): an existing entry is replaced
xreq_register(queues, request_id, channel) ==
    [k \in DOMAIN queues \cup {request_id} |->
        IF k = request_id THEN channel ELSE queues[k]]

\* GreenletXREQClient.queue_message_for_send
xreq_queue_message_for_send(has_rid, r, data) ==
    /\ Len(xreq_issued) < MaxXCalls
    /\ LET request_id == IF has_rid THEN r ELSE Uuid(xreq_uuid_count + 1)
           message == XMessage(XControl(request_id, "req"), data)
           channel == Len(xreq_channels) + 1
       IN /\ xreq_uuid_count' = IF has_rid THEN xreq_uuid_count
                                ELSE xreq_uuid_count + 1
          /\ xreq_channels' = Append(xreq_channels, <<>>)
          /\ xreq_issued' = Append(xreq_issued, message)
          /\ xreq_delivery_queues' =
                xreq_register(xreq_delivery_queues, request_id, channel)
          /\ xreq_send_queue' = Append(xreq_send_queue, message)
          /\ xreq_last' = XOutcome("queue_message_for_send", "returned", channel,
                                   request_id, FALSE, FALSE, "none")
    /\ UNCHANGED <<xreq_wire, xreq_inbox>>
    /\ UNCHANGED not_xvars

\* lines 63-66: while the queue is not empty, take a message and send it.
\* sent is what went out, left what stays queued, outcome how the loop ended:
\* a message whose send raises has left the queue and is sent in part.
xreq_drain(queue) ==
    LET bad == {i \in DOMAIN queue : xreq_send_raises(queue[i])}
        n == IF bad = {} THEN Len(queue)
             ELSE CHOOSE i \in bad : \A j \in bad : i <= j
    IN [sent |-> [i \in 1..n |-> xreq_send_message(queue[i])],
        left |-> SubSeq(queue, n + 1, Len(queue)),
        outcome |-> IF bad = {} THEN "returned" ELSE "IndexError"]

\* the mutant of xreq_pop: the entry is looked up but not removed
xreq_pop_keeps(queues, request_id) == queues

\* lines 81-83: self._delivery_queues.pop(request_id), what is left
xreq_pop(queues, request_id) ==
    [k \in DOMAIN queues \ {request_id} |-> queues[k]]

\* the mutant of xreq_popped_queue: any entry's channel (popitem)
xreq_popped_any(queues, request_id) == queues[CHOOSE k \in DOMAIN queues : TRUE]

\* lines 81-83: self._delivery_queues.pop(request_id), the channel it yields
xreq_popped_queue(queues, request_id) == queues[request_id]

\* the mutant of xreq_miss_outcome: the KeyError is not caught
xreq_miss_raises == "KeyError"

\* lines 84-87: the KeyError of a missing entry is caught and logged
xreq_miss_outcome == "returned"

\* GreenletXREQClient._pollster_callback
xreq_pollster_callback(readable, writable) ==
    LET op == "_pollster_callback"
        drained == IF writable THEN xreq_drain(xreq_send_queue)
                   ELSE [sent |-> <<>>, left |-> xreq_send_queue,
                         outcome |-> "returned"]
    IN
    /\ xreq_wire' = xreq_wire \o drained.sent
    /\ xreq_send_queue' = drained.left
    /\ IF drained.outcome # "returned"
       THEN \* the exception leaves the callback before it reads
            /\ xreq_last' = XOutcome(op, drained.outcome, 0, Absent, readable,
                                     writable, "none")
            /\ UNCHANGED <<xreq_inbox, xreq_delivery_queues, xreq_channels>>
       ELSE IF ~readable
       THEN /\ xreq_last' = XOutcome(op, "returned", 0, Absent, readable,
                                     writable, "none")
            /\ UNCHANGED <<xreq_inbox, xreq_delivery_queues, xreq_channels>>
       ELSE IF xreq_inbox = <<>>
       THEN \* _receive_message: the socket would have blocked
            /\ xreq_last' = XOutcome(op, "returned", 0, Absent, readable,
                                     writable, "blocked")
            /\ UNCHANGED <<xreq_inbox, xreq_delivery_queues, xreq_channels>>
       ELSE
       LET message == xreq_receive_message(Head(xreq_inbox))
           request_id == message.control.rid
       IN
       /\ xreq_inbox' = Tail(xreq_inbox)
       /\ IF request_id = Absent
          THEN \* message has no 'request-id'
               /\ xreq_last' = XOutcome(op, "returned", 0, Absent, readable,
                                        writable, "malformed")
               /\ UNCHANGED <<xreq_delivery_queues, xreq_channels>>
          ELSE IF request_id \notin DOMAIN xreq_delivery_queues
          THEN \* No delivery queue
               /\ xreq_last' = XOutcome(op, xreq_miss_outcome, 0, request_id,
                                        readable, writable, "miss")
               /\ UNCHANGED <<xreq_delivery_queues, xreq_channels>>
          ELSE LET channel == xreq_popped_queue(xreq_delivery_queues, request_id)
               IN /\ xreq_delivery_queues' =
                        xreq_pop(xreq_delivery_queues, request_id)
                  /\ xreq_channels' =
                        [xreq_channels EXCEPT
                            ![channel] = Append(@, message)]
                  /\ xreq_last' = XOutcome(op, "returned", channel, request_id,
                                           readable, writable, "hit")
    /\ UNCHANGED <<xreq_issued, xreq_uuid_count>>
    /\ UNCHANGED not_xvars

\* request-ids a message from the peer can carry
XReplyRids == {Absent} \cup XRids \cup {Uuid(1)}
\* the rest of a reply's control map, and the bodies a reply can carry
XReplyRest == "rep"
XReplyBodies == {XNoBody, XScalar("s1"), XList(<<"s1", "s2">>)}

\* the peer sends a multipart message, framed as the client frames its own
XPeerSend(rid, body) ==
    /\ Len(xreq_inbox) < MaxXInbox
    /\ xreq_inbox' = Append(xreq_inbox,
                            xreq_send_message(XMessage(XControl(rid, XReplyRest), body)))
    /\ UNCHANGED <<xreq_send_queue, xreq_delivery_queues, xreq_channels,
                   xreq_issued, xreq_wire, xreq_uuid_count, xreq_last>>
    /\ UNCHANGED not_xvars

XNext ==
    \/ \E has_rid \in BOOLEAN, r \in XRids, data \in XBodies :
          xreq_queue_message_for_send(has_rid, r, data)
    \/ \E readable \in BOOLEAN, writable \in BOOLEAN :
          xreq_pollster_callback(readable, writable)
    \/ \E rid \in XReplyRids, body \in XReplyBodies :
          XPeerSend(rid, body)

XSpec == XInit /\ [][XNext]_vars

\* ------------------------------------- collection access control: the call
ACInit ==
    /\ NoResilientClient
    /\ XreqInit
    /\ NoSpaceUsageGetter
    /\ access_type \in AccessTypes
    /\ request \in Requests
    /\ baseline_access_control \in Baselines
    /\ check_result = NoResult

\* the call of check_access_control on the inputs drawn
CheckAccessControl ==
    /\ check_result = NoResult
    /\ check_result' =
          check_access_control(access_type, request, baseline_access_control)
    /\ UNCHANGED <<access_type, request, baseline_access_control>>
    /\ UNCHANGED not_avars

ACNext == CheckAccessControl

ACSpec == ACInit /\ [][ACNext]_vars

\* ------------------------------------------- space usage getter: the calls
SugInit ==
    /\ NoResilientClient
    /\ XreqInit
    /\ NoAccessCheck
    /\ agreement_level \in 1..NumReaders
    /\ SugFresh

\* get_space_usage up to the join: lines 48-57, and _join's wait (line 28)
\* begins; has_timeout tells whether a timeout was given
get_space_usage(has_timeout) ==
    /\ IF _pending # {}
       THEN \* line 49
            /\ sug_last' = SugOutcome("AlreadyInProgress", 0)
            /\ UNCHANGED <<_pending, sug_calls, sug_joining, sug_timeout>>
       ELSE /\ sug_joining = 0
            /\ sug_calls < MaxSugCalls
            /\ sug_calls' = sug_calls + 1
            /\ _pending' = {Task(sug_calls + 1, r) : r \in data_readers}
            /\ sug_joining' = sug_calls + 1
            /\ sug_timeout' = has_timeout
            /\ UNCHANGED sug_last
    /\ UNCHANGED <<_done, agreement_level>>
    /\ UNCHANGED not_svars

\* a task ends, by returning (successful) or by raising: the set drops it and
\* _done_link (lines 35-39) runs
TaskEnds(task, successful) ==
    /\ task \in _pending
    /\ _pending' = _pending \ {task}
    /\ _done' = IF successful THEN Append(_done, task) ELSE _done
    /\ UNCHANGED <<agreement_level, sug_calls, sug_joining, sug_timeout, sug_last>>
    /\ UNCHANGED not_svars

\* _join after the wait (lines 29-33): the tasks are all done, or the timeout
\* has passed; get_space_usage returns or raises
_join ==
    /\ sug_joining # 0
    /\ _pending = {} \/ sug_timeout
    /\ IF Len(_done) < agreement_level
       THEN \* line 32: the tasks still running are left in _pending
            /\ sug_last' = SugOutcome("SpaceUsageFailedError", sug_joining)
            /\ UNCHANGED <<_pending, _done>>
       ELSE \* line 33: killed tasks end with GreenletExit, which _done_link
            \* ignores
            /\ _pending' = {}
            /\ sug_last' = SugOutcome("returned", sug_joining)
            /\ UNCHANGED _done
    /\ sug_joining' = 0
    /\ UNCHANGED <<agreement_level, sug_calls, sug_timeout>>
    /\ UNCHANGED not_svars

SugNext ==
    \/ \E has_timeout \in BOOLEAN : get_space_usage(has_timeout)
    \/ \E task \in _pending, successful \in BOOLEAN : TaskEnds(task, successful)
    \/ _join

SugSpec == SugInit /\ [][SugNext]_vars

\* ---------------------------------------------------------------- properties
\* request-id r is in the Send Queue
InQueue(r) == \E i \in DOMAIN send_queue : send_queue[i].rid = r

\* an envelope with request-id r has gone out on the socket
Transmitted(r) == \E i \in DOMAIN wire : wire[i].rid = r

\* the housekeeping task is invoked with the halt signal unset
RunUnhalted == ~halt_event /\ run

C10_Construction ==
    last.op = "__init__"
    => /\ last.outcome = "returned"
       /\ constructed
       /\ Len(wire) = 1
       /\ wire[1].mtype = HandshakeType
       /\ wire[1].rid # Absent
       /\ wire[1].tag = client_tag
       /\ wire[1].addr = client_address
       /\ status = _status_handshaking
       /\ pending_message.mtype = HandshakeType
       /\ pending_message.rid = wire[1].rid
       /\ send_queue = <<>>


\* C11 (Handshake acknowledgment): when the client is handshaking and the
\* callback receives an ack that carries the pending handshake's request-id,
\* the status becomes connected and the handshake leaves the Pending Slot
\* (which is then empty, or holds the next queued envelope); and the status
\* becomes connected in no other step.
HandshakeAckArrives ==
    /\ status = _status_handshaking
    /\ pending_message.mtype = HandshakeType
    /\ inbox # <<>>
    /\ Head(inbox).rid = pending_message.rid
    /\ _pollster_callback

C14_HousekeepingCancellation ==
    [][ /\ (halt_event /\ run)
           => /\ last' = Outcome("run", "returned", <<>>)
              /\ UNCHANGED <<fields, wire, inbox, deliverator>>
        /\ halt_event
           => /\ halt_event'
              /\ (status' = _status_disconnected => status = _status_disconnected)
              /\ \A i \in DOMAIN wire' :
                    wire'[i].mtype = HandshakeType => i \in DOMAIN wire ]_vars

\* a run with the halt signal set has returned the empty schedule although
\* the pending envelope had timed out / the retry interval had passed
C14_Witness ==
    /\ halt_event
    /\ last = Outcome("run", "returned", <<>>)
    /\ \/ /\ pending_message # None
          /\ now - pending_message_start_time > _ack_timeout
       \/ /\ status = _status_disconnected
          /\ now - status_time > _handshake_retry_interval


\* ------------------------------------------- properties: multiplexed client
\* the callback reads the message at the head of the socket's input
XReceives == xreq_inbox # <<>> /\ xreq_inbox' = Tail(xreq_inbox)

\* the request-id of the message the callback is about to read
XHeadRid == xreq_receive_message(Head(xreq_inbox)).control.rid

\* the channels queue_message_for_send returned for request-id r, and the
\* one it returned last
XChannelsOf(r) == {ch \in DOMAIN xreq_issued : xreq_issued[ch].control.rid = r}
XLatest(r) == CHOOSE ch \in XChannelsOf(r) : \A c \in XChannelsOf(r) : c <= ch

\* request-id r was registered and its channel has been given a reply since
XResolved(r) == XChannelsOf(r) # {} /\ xreq_channels[XLatest(r)] # <<>>

\* C15 (Exactly-once resolution): every channel queue_message_for_send has
\* returned holds at most one reply, whatever messages are received; and a
\* reply read for a request-id whose channel already holds its reply finds no
\* entry: the callback returns, having logged a miss, and no channel changes.
C15_ExactlyOnce ==
    [][ /\ \A ch \in DOMAIN xreq_channels' : Len(xreq_channels'[ch]) <= 1
        /\ (XReceives /\ XHeadRid # Absent /\ XResolved(XHeadRid))
           => /\ xreq_last'.seen = "miss"
              /\ xreq_last'.outcome = "returned"
              /\ xreq_channels' = xreq_channels ]_vars

\* a second reply for a request-id was read after its channel got its reply
C15_Witness ==
    /\ xreq_last.seen = "miss"
    /\ XChannelsOf(xreq_last.rid) # {}
    /\ Len(xreq_channels[XLatest(xreq_last.rid)]) = 1

\* request-id r is registered and its reply has not been read yet
XOutstanding(r) == XChannelsOf(r) # {} /\ xreq_channels[XLatest(r)] = <<>>

\* C16 (Reply correlation): whatever requests are outstanding and in whatever
\* order the replies come, a channel only ever holds replies that carry the
\* request-id it was returned for; and a reply read for an outstanding
\* request-id r puts exactly its decoded (control, body) on the channel
\* returned for r and changes no other channel.
C16_ReplyCorrelation ==
    [][ /\ \A ch \in DOMAIN xreq_channels' :
              \A i \in DOMAIN xreq_channels'[ch] :
                 xreq_channels'[ch][i].control.rid = xreq_issued'[ch].control.rid
        /\ (XReceives /\ XHeadRid # Absent /\ XOutstanding(XHeadRid))
           => xreq_channels' =
                 [xreq_channels EXCEPT
                     ![XLatest(XHeadRid)] =
                         Append(@, xreq_receive_message(Head(xreq_inbox)))] ]_vars

\* two requests with distinct request-ids were outstanding together and the
\* reply to the second was read first: both channels hold their own reply
C16_Witness ==
    /\ Len(xreq_channels) = 2
    /\ xreq_issued[1].control.rid # xreq_issued[2].control.rid
    /\ xreq_channels[1] # <<>>
    /\ xreq_channels[2] # <<>>
    /\ xreq_channels[1][1].body # xreq_channels[2][1].body
    /\ xreq_last.seen = "hit"
    /\ xreq_last.channel = 1

\* C17 (Correlation miss): when the callback reads a reply whose request-id
\* is not registered (never registered, or resolved already), it returns
\* without raising, no channel is given anything, the registered request-ids
\* stay as they are, and the outbound queue is left as the write half of the
\* same callback left it (drained when invoked writable, untouched otherwise).
C17_CorrelationMiss ==
    [][ (XReceives /\ XHeadRid # Absent /\ ~XOutstanding(XHeadRid))
        => /\ xreq_last'.outcome = "returned"
           /\ xreq_last'.seen = "miss"
           /\ xreq_channels' = xreq_channels
           /\ xreq_delivery_queues' = xreq_delivery_queues
           /\ xreq_send_queue' =
                 IF xreq_last'.writable THEN <<>> ELSE xreq_send_queue ]_vars

\* a reply for a request-id that was never registered was read while another
\* request was registered and an envelope was waiting in the outbound queue
C17_Witness ==
    /\ xreq_last.seen = "miss"
    /\ XChannelsOf(xreq_last.rid) = {}
    /\ DOMAIN xreq_delivery_queues # {}
    /\ xreq_send_queue # <<>>

\* C18 (Duplicate registration): queue_message_for_send with a request-id
\* that is registered and not yet resolved fails with a duplicate-request-id
\* error and leaves the entry and its channel as they are, so that the first
\* caller's channel can still be fulfilled.
C18_DuplicateRegistration ==
    [][ \A r \in XRids, data \in XBodies :
          (xreq_queue_message_for_send(TRUE, r, data)
           /\ r \in DOMAIN xreq_delivery_queues)
          => /\ xreq_last'.outcome = "DuplicateRequestId"
             /\ xreq_delivery_queues' = xreq_delivery_queues
             /\ xreq_channels' = xreq_channels ]_vars

\* the multipart messages the envelopes of q make on the wire
XEncoded(q) == [i \in DOMAIN q |-> xreq_send_message(q[i])]

\* C19 (Deferred send and drain): queue_message_for_send sends nothing and
\* appends its envelope to the outbound queue; the wire grows only in a
\* callback invoked writable; such a callback returns with the outbound queue
\* empty; and the envelopes accepted so far are, in the order accepted, the
\* complete messages on the wire followed by the outbound queue: each is
\* sent exactly once.
C19_DeferredSendAndDrain ==
    [][ /\ Len(xreq_issued') > Len(xreq_issued)
           => /\ xreq_wire' = xreq_wire
              /\ xreq_send_queue' =
                    Append(xreq_send_queue, xreq_issued'[Len(xreq_issued')])
        /\ xreq_wire' # xreq_wire
           => xreq_last'.op = "_pollster_callback" /\ xreq_last'.writable
        /\ (\E readable \in BOOLEAN : xreq_pollster_callback(readable, TRUE))
           => /\ xreq_last'.outcome = "returned"
              /\ xreq_send_queue' = <<>>
        /\ xreq_wire' \o XEncoded(xreq_send_queue') = XEncoded(xreq_issued')
        /\ \A i \in DOMAIN xreq_wire' :
              ~xreq_wire'[i][Len(xreq_wire'[i])].more ]_vars

XRoundTrip(body) ==
    IF body.kind = "None" THEN XNoBody
    ELSE IF Len(body.segs) = 1 THEN XScalar(body.segs[1])
    ELSE XList(body.segs)

\* frames is one control frame carrying control, then one raw frame per
\* segment of body, 'more follows' set on every frame but the last
XWellFramed(frames, control, body) ==
    /\ Len(frames) = 1 + Len(body.segs)
    /\ frames[1].kind = "json"
    /\ frames[1].control = control
    /\ \A i \in 2..Len(frames) :
          frames[i].kind = "raw" /\ frames[i].seg = body.segs[i - 1]
    /\ \A i \in 1..Len(frames) : frames[i].more = (i < Len(frames))

\* C21 (Codec asymmetry): every envelope sent whose body is absent, a single
\* segment or a non-empty list is on the wire as one control frame followed
\* by one frame per segment, 'more follows' set on all but the last, and
\* decoding those frames yields the same control map and: no body for an
\* absent body, the bare segment for a single segment or a one-element list,
\* the same list for two or more segments.
C21_CodecAsymmetry ==
    \A i \in DOMAIN xreq_wire :
       ~xreq_send_raises(xreq_issued[i])
       => /\ XWellFramed(xreq_wire[i], xreq_issued[i].control, xreq_issued[i].body)
          /\ xreq_receive_message(xreq_wire[i]) =
                XMessage(xreq_issued[i].control, XRoundTrip(xreq_issued[i].body))

\* a one-element list and a two-element list have both been sent
C21_Witness ==
    /\ Len(xreq_wire) = 2
    /\ xreq_issued[1].body = XList(<<"s1">>)
    /\ xreq_issued[2].body = XList(<<"s1", "s2">>)
    /\ xreq_receive_message(xreq_wire[1]).body = XScalar("s1")
    /\ xreq_receive_message(xreq_wire[2]).body = XList(<<"s1", "s2">>)

\* ------------------------------------ properties: collection access control
\* check_access_control has been called on the inputs
AccessChecked == check_result # NoResult

\* the access control in effect has a non-empty ipv4_whitelist and the
\* request's remote address lies in none of its networks
OutsideIpv4Whitelist ==
    /\ baseline_access_control.locations.kind # "None"
    /\ LET ipv4 == EffectiveAccessControl(request, baseline_access_control)
                      .ipv4_whitelist
       IN /\ ipv4.kind = "list"
          /\ ipv4.items # <<>>
          /\ \A i \in DOMAIN ipv4.items :
                ~InNetwork(request.remote_addr, ipv4.items[i])

\* C22 (IPv4 whitelist precedence): when the access control in effect after
\* the location modifications has a non-empty ipv4_whitelist and the remote
\* address lies in none of its networks, check_access_control returns
\* access_forbidden, for every access type and whatever the allow_unauth_*
\* flags and the referrer whitelist are.
C22_Ipv4WhitelistPrecedence ==
    (AccessChecked /\ OutsideIpv4Whitelist)
    => check_result = AcOutcome("returned", access_forbidden)

\* refused by a whitelist that a location brought in, although the flag of
\* the access type allows unauthenticated access and the Referer matches
C22_Witness ==
    /\ AccessChecked
    /\ OutsideIpv4Whitelist
    /\ baseline_access_control.ipv4_whitelist.kind = "absent"
    /\ LET access_control == EffectiveAccessControl(request, baseline_access_control)
       IN /\ AllowedUnauth(access_type, access_control)
          /\ access_control.unauth_referrer_whitelist.kind = "list"
          /\ _check_unauth_referrer_whitelist(
                 access_control.unauth_referrer_whitelist.items, request.referer)
    /\ check_result.value = access_forbidden

\* the access control in effect has no ipv4_whitelist, or an empty one, or
\* one that includes the request's remote address
PassesIpv4Whitelist(access_control) ==
    \/ access_control.ipv4_whitelist.kind = "absent"
    \/ /\ access_control.ipv4_whitelist.kind = "list"
       /\ \/ access_control.ipv4_whitelist.items = <<>>
          \/ _check_ipv4_whitelist(access_control.ipv4_whitelist.items,
                                   request.remote_addr)

\* the access control in effect, with its referrer whitelist taken out
WithoutReferrerWhitelist(access_control) ==
    [access_control EXCEPT !.unauth_referrer_whitelist = NoKey,
                           !.locations = NoKey]

\* C23 (Referrer whitelist scope): for a request that passes the ipv4
\* whitelist and whose access type is not opened by its allow_unauth_* flag,
\* check_access_control returns access_requires_password_authentication
\* whether or not there is a referrer whitelist and whether or not the Referer
\* matches it; and where the result differs from the result without the
\* referrer whitelist, it is access_forbidden in place of access_allowed.
C23_ReferrerWhitelistScope ==
    (/\ AccessChecked
     /\ baseline_access_control # EmptyDict
     /\ baseline_access_control.locations.kind # "None")
    => LET access_control ==
               EffectiveAccessControl(request, baseline_access_control)
           without == check_access_control(
                          access_type, request,
                          WithoutReferrerWhitelist(access_control))
       IN (/\ PassesIpv4Whitelist(access_control)
           /\ access_control.unauth_referrer_whitelist.kind \in {"absent", "list"})
          => /\ ~AllowedUnauth(access_type, access_control)
                => check_result =
                      AcOutcome("returned", access_requires_password_authentication)
             /\ check_result # without
                => /\ without.value = access_allowed
                   /\ check_result.value = access_forbidden

\* ------------------------------------- properties: resilient client, part 2
\* how many times the envelope with request-id r occurs in the Send Queue q
\* and the Pending Slot p together
Occurrences(q, p, r) ==
    Cardinality({i \in DOMAIN q : q[i].rid = r})
    + (IF p.shape = "Message" /\ p.rid = r THEN 1 ELSE 0)

AckArrives == inbox # <<>> /\ _pollster_callback

SuccessesOf(call) == SelectSeq(_done, LAMBDA task : task.call = call)

\* a call made while tasks are pending ends without having spawned
SugRefused ==
    /\ sug_calls' # sug_calls => _pending = {}
    /\ (sug_last' # sug_last /\ sug_joining' = sug_joining) =>
           /\ _pending # {}
           /\ sug_last'.outcome = "AlreadyInProgress"
           /\ _pending' = _pending

\* C36: get_space_usage raises AlreadyInProgress without spawning anything
\* when tasks of an earlier query are still pending; otherwise it returns
\* normally exactly when at least agreement_level of the tasks spawned by this
\* very call completed successfully (successes of earlier calls do not
\* count), and raises SpaceUsageFailedError in every other case.
C36_SpaceUsageAgreement ==
    [][/\ SugRefused
       /\ (sug_joining # 0 /\ sug_joining' = 0) =>
              /\ sug_last'.call = sug_joining
              /\ IF Len(SuccessesOf(sug_joining)) >= agreement_level
                 THEN sug_last'.outcome = "returned"
                 ELSE sug_last'.outcome = "SpaceUsageFailedError"]_vars

====
